---- MODULE Spec2Model ----
(***************************************************************************)
(* Offline-first synchronisation engine of the expense tracker:            *)
(*   src/lib/expenses-sqlite.ts   the local store (expenses, sync_queue)   *)
(*   src/unnamed/part_013         pushToRemote, pullFromRemote,            *)
(*                                syncExpenses, setupAutoSync              *)
(*   src/lib/expenses-supabase.ts the remote adapter                       *)
(*   src/contexts/ExpensesContext.tsx                                      *)
(*                                SyncProvider.sync, forcePull, triggers   *)
(* A sync cycle is an async function: it suspends at every remote call,    *)
(* and local operations and other cycles run while it is suspended.        *)
(***************************************************************************)
EXTENDS Integers, Sequences, FiniteSets, Bags, TLC

\* ---------------------------------------------------------------- bounds
\* Number of ids generateUUID hands out (each one fresh).
MaxIds == 2
\* Number of distinct field values an expense can hold.
MaxVal == 2
\* Number of sync cycles that can be suspended at the same time.
NCycles == 2
\* Number of rows the sync_queue AUTOINCREMENT key hands out.
MaxQid == 2
\* Number of pending 3-second status timers.
MaxTimers == 1
\* Number of times, in one run, a trigger starts a cycle while another cycle
\* is suspended.
MaxOverlaps == 1

\* ------------------------------------------------------ program constants
MAX_RETRIES == 3

Ids == 1..MaxIds
Vals == 1..MaxVal
Ops == {"create", "update", "delete"}

\* The signed-in owner (user.id of AuthContext).
UserId == "u1"

NoRow == [absent |-> TRUE]
NoResult == [none |-> TRUE]
NoErr == "null"
\* The two-device configuration when there is one device only.
NoDevices == <<>>
SyncErr == "error"

VARIABLES
    expenses,       \* table expenses: id -> row or NoRow
    sync_queue,     \* table sync_queue, in created_at (insertion) order
    nextQid,        \* next AUTOINCREMENT key of sync_queue
    nextId,         \* next id generateUUID returns
    remote,         \* the remote expenses table: id -> row or NoRow
    online,         \* NetInfo: connected and internet reachable
    cyc,            \* the bag of suspended sync cycles
    syncStatus,     \* SyncProvider state
    result,         \* the SyncResult the call that returned in the last step
                    \* returned (NoResult: the last step returned nothing)
    timers,         \* pending setTimeout(() => setSyncStatus('idle'), 3000)
    deleted,        \* history: ids deleteExpense removed, delete not yet pushed
    intent,         \* history: id -> value of the latest local create/update
    overlaps,       \* history: cycles started while another was suspended
    devices,        \* two devices of one user: device -> its local database
    cloud,          \* the remote table the two devices share
    cloudStamp,     \* updated_at of the rows of cloud
    clock,          \* the wall clock new Date() reads
    lastEdit,       \* history: id -> the edit with the latest updated_at
    user,           \* AuthContext: the signed-in owner, or NoUser
    shown,          \* ExpensesProvider: the in-memory list of expenses
    addCalls        \* ExpensesProvider: addExpense calls awaiting the store

\* The state of the two-device configuration.
tdvars == <<devices, cloud, cloudStamp, clock, lastEdit>>

\* The state of the application around the sync engine.
ctxvars == <<user, shown, addCalls>>

vars == <<expenses, sync_queue, nextQid, nextId, remote, online, cyc,
          syncStatus, result, timers, deleted, intent, overlaps, tdvars,
          ctxvars>>

\* ------------------------------------------------------------ local store

\* A row of table expenses, as addExpense writes it.
NewRow(v) ==
    [user_id |-> UserId, val |-> v, synced |-> 0, sync_error |-> NoErr,
     last_sync_at |-> FALSE]

RECURSIVE SelectSeq2(_, _)
\* The entries of q that are not in the set drop, order kept.
SelectSeq2(q, drop) ==
    IF q = <<>> THEN <<>>
    ELSE IF Head(q).id \in drop THEN SelectSeq2(Tail(q), drop)
    ELSE <<Head(q)>> \o SelectSeq2(Tail(q), drop)

QueueEntries(q) == {q[i] : i \in 1..Len(q)}

\* The queue holds an entry of operation op for record id.
HasEntry(q, id, op) ==
    \E e \in QueueEntries(q) : e.expense_id = id /\ e.operation = op

\* A key is left for the entry an enqueue of op for id needs.
KeyLeft(q, qid, id, op) == HasEntry(q, id, op) \/ qid <= MaxQid

\* addToSyncQueue without its duplicate check.
addToSyncQueueNoCheck(q, qid, expenseId, operation) ==
    Append(q, [id |-> qid, expense_id |-> expenseId, operation |-> operation,
               retry_count |-> 0])

\* addToSyncQueue: the queue after the call.
addToSyncQueue(q, qid, expenseId, operation) ==
    IF \E e \in QueueEntries(q) :
           e.expense_id = expenseId /\ e.operation = operation
    THEN q
    ELSE Append(q, [id |-> qid, expense_id |-> expenseId,
                    operation |-> operation, retry_count |-> 0])

\* The AUTOINCREMENT key after addToSyncQueue turned q into q2.
QidAfter(q, q2, qid) == IF Len(q2) > Len(q) THEN qid + 1 ELSE qid

\* getSyncQueue: SELECT * FROM sync_queue ORDER BY created_at ASC.
getSyncQueue(q) == q

\* removeFromSyncQueue: DELETE FROM sync_queue WHERE id = ?
removeFromSyncQueue(q, queueId) == SelectSeq2(q, {queueId})

\* incrementSyncRetryCount: retry_count = retry_count + 1 WHERE id = ?
incrementSyncRetryCount(q, queueId) ==
    [i \in 1..Len(q) |->
        IF q[i].id = queueId
        THEN [q[i] EXCEPT !.retry_count = @ + 1]
        ELSE q[i]]

\* clearFailedSyncItems: DELETE FROM sync_queue WHERE retry_count >= ?
clearFailedSyncItems(q, maxRetries) ==
    SelectSeq2(q, {e.id : e \in {x \in QueueEntries(q) : x.retry_count >= maxRetries}})

\* removeDuplicateSyncQueueEntries: keep the lowest id of each
\* (expense_id, operation) group.
removeDuplicateSyncQueueEntries(q) ==
    SelectSeq2(q, {e.id : e \in {x \in QueueEntries(q) :
        \E y \in QueueEntries(q) :
            /\ y.expense_id = x.expense_id
            /\ y.operation = x.operation
            /\ y.id < x.id}})

\* A markExpenseAsSynced that writes nothing.
markExpenseAsSyncedNever(exps, id) == exps

\* markExpenseAsSynced: synced = 1, last_sync_at = now, sync_error = NULL
markExpenseAsSynced(exps, id) ==
    IF exps[id] = NoRow THEN exps
    ELSE [exps EXCEPT ![id] = [@ EXCEPT !.synced = 1, !.last_sync_at = TRUE,
                                        !.sync_error = NoErr]]

\* markExpenseSyncFailed: sync_error = ? WHERE id = ?
markExpenseSyncFailed(exps, id, error) ==
    IF exps[id] = NoRow THEN exps
    ELSE [exps EXCEPT ![id] = [@ EXCEPT !.sync_error = error]]

\* upsertExpenseFromRemote written through the path of a local edit: it
\* also enqueues an update for the row.
upsertExpenseFromRemoteEnqueues(db, id, r) ==
    [expenses |->
        [db.expenses EXCEPT ![id] =
            [user_id |-> r.user_id, val |-> r.val, synced |-> 1,
             sync_error |-> IF db.expenses[id] = NoRow THEN NoErr
                            ELSE db.expenses[id].sync_error,
             last_sync_at |-> TRUE]],
     queue |-> addToSyncQueue(db.queue, 0, id, "update")]

\* upsertExpenseFromRemote on the two tables db = (expenses, queue): the
\* remote row verbatim, synced = 1, last_sync_at = now; an existing row keeps
\* its sync_error; the queue is not written.
upsertExpenseFromRemote(db, id, r) ==
    [expenses |->
        [db.expenses EXCEPT ![id] =
            [user_id |-> r.user_id, val |-> r.val, synced |-> 1,
             sync_error |-> IF db.expenses[id] = NoRow THEN NoErr
                            ELSE db.expenses[id].sync_error,
             last_sync_at |-> TRUE]],
     queue |-> db.queue]

\* -------------------------------------------------------- remote adapter
\* A remote call ends in one of these ways: "ok" (applied, answered),
\* "lost" (applied, the answer never arrives: the client sees a network
\* error), "fail" (not applied, the client sees an error).
Outcomes == {"ok", "lost", "fail"}

RemoteRow(v, userId) == [user_id |-> userId, val |-> v]

\* supabaseExpenses.addExpense(expenseData, userId, id): insert with the
\* local id; the primary key rejects a second row with the same id (23505).
remoteAddExpense(rem, id, v, userId, o) ==
    IF o = "fail" THEN [remote |-> rem, error |-> "other"]
    ELSE IF rem[id] # NoRow
         THEN [remote |-> rem,
               error |-> IF o = "ok" THEN "duplicate" ELSE "other"]
    ELSE [remote |-> [rem EXCEPT ![id] = RemoteRow(v, userId)],
          error |-> IF o = "ok" THEN "none" ELSE "other"]

\* supabaseExpenses.updateExpense(id, expenseData): update ... eq(id)
\* .select().single(); no row matched is an error.
remoteUpdateExpense(rem, id, v, o) ==
    IF o = "fail" THEN [remote |-> rem, error |-> "other"]
    ELSE IF rem[id] = NoRow
         THEN [remote |-> rem,
               error |-> IF o = "ok" THEN "notfound" ELSE "other"]
    ELSE [remote |-> [rem EXCEPT ![id] = [@ EXCEPT !.val = v]],
          error |-> IF o = "ok" THEN "none" ELSE "other"]

\* The ways a remote delete can end: those of every call, and two error
\* answers pushToRemote looks for, "not found" / "No rows" and "invalid input
\* syntax for type uuid", which a remote can give only for an id it has no
\* row of.
DeleteOutcomes == Outcomes \cup {"notfound", "invalid"}

\* supabaseExpenses.deleteExpense(id): delete ... eq(id).
remoteDeleteExpense(rem, id, o) ==
    IF o = "fail" THEN [remote |-> rem, error |-> "other"]
    ELSE IF o \in {"notfound", "invalid"} THEN [remote |-> rem, error |-> o]
    ELSE [remote |-> [rem EXCEPT ![id] = NoRow],
          error |-> IF o = "ok" THEN "none" ELSE "other"]

\* A delete branch that ignores no error.
deleteErrorIgnoredNever(error) == FALSE

\* pushToRemote, delete branch: isNotFound || isInvalidUUID.
deleteErrorIgnored(error) == error \in {"notfound", "invalid"}

\* supabaseExpenses.getExpenses(userId): the ids of the owner's rows.
remoteGetExpenses(rem, userId) ==
    {id \in Ids : rem[id] # NoRow /\ rem[id].user_id = userId}

\* ------------------------------------------------------------ sync cycle
ErrorEntry(op, id) == [op |-> op, id |-> id]

RECURSIVE NextDispatch(_, _, _)
\* pushToRemote's loop from the entry items[1] on, up to its next remote
\* call: entries at the retry ceiling are skipped, a create or update whose
\* row is gone is removed from the queue.  items is what is left of the
\* snapshot getSyncQueue returned, the entry being dispatched first.
NextDispatch(items, q, exps) ==
    IF items = <<>> THEN [items |-> <<>>, queue |-> q]
    ELSE LET item == Head(items) IN
         IF item.retry_count >= MAX_RETRIES
         THEN NextDispatch(Tail(items), q, exps)
         ELSE IF item.operation \in {"create", "update"}
                 /\ exps[item.expense_id] = NoRow
         THEN NextDispatch(Tail(items), removeFromSyncQueue(q, item.id), exps)
         ELSE [items |-> items, queue |-> q]

\* A loop that sends the value 1 whatever the row holds.
SuspendFixedData(kind, nd, exps, pushed, errors) ==
    IF nd.items = <<>>
    THEN [pc |-> "pull", kind |-> kind, items |-> <<>>, data |-> 0,
          pushed |-> pushed, errors |-> errors]
    ELSE [pc |-> Head(nd.items).operation, kind |-> kind, items |-> nd.items,
          data |-> IF Head(nd.items).operation = "delete" THEN 0 ELSE 1,
          pushed |-> pushed, errors |-> errors]

\* The cycle after the loop advanced to its next remote call (expenseData is
\* read from the local row at that moment), or to the pull when the
\* snapshot is used up.
Suspend(kind, nd, exps, pushed, errors) ==
    IF nd.items = <<>>
    THEN [pc |-> "pull", kind |-> kind, items |-> <<>>, data |-> 0,
          pushed |-> pushed, errors |-> errors]
    ELSE [pc |-> Head(nd.items).operation, kind |-> kind, items |-> nd.items,
          data |-> IF Head(nd.items).operation = "delete" THEN 0
                   ELSE exps[Head(nd.items).expense_id].val,
          pushed |-> pushed, errors |-> errors]

\* syncExpenses' answer when isOnline() is false.
OfflineResult ==
    [success |-> FALSE, pushed |-> 0, pulled |-> 0,
     errors |-> <<ErrorEntry("offline", 0)>>]

\* A result that says success whatever the errors.
SyncResultAlwaysSuccess(pushed, pulled, errors) ==
    [success |-> TRUE, pushed |-> pushed, pulled |-> pulled,
     errors |-> errors]

SyncResult(pushed, pulled, errors) ==
    [success |-> (Len(errors) = 0), pushed |-> pushed, pulled |-> pulled,
     errors |-> errors]

\* The suspended cycles, each once.
Cycles == BagToSet(cyc)

\* The number of suspended cycles.
InFlight == BagCardinality(cyc)

\* The number of suspended cycles that SyncProvider.sync or forcePull
\* started: each ends in a timer.
TimedInFlight ==
    BagCardinality([r \in {x \in Cycles : x.kind # "auto"} |-> cyc[r]])

\* The bag with one cycle r gone, and with one more.
Without(bag, r) == bag (-) SetToBag({r})
With(bag, r) == bag (+) SetToBag({r})

\* What the caller does with the result: SyncProvider.sync and forcePull set
\* the status and start the 3 s timer, the setupAutoSync callback only
\* records the result.
Deliver(kind, res) ==
    /\ result' = res
    /\ IF kind = "auto"
       THEN UNCHANGED <<syncStatus, timers>>
       ELSE /\ syncStatus' = (IF res.success THEN "success" ELSE "error")
            /\ timers' = timers + 1

\* A connectivity check that never says offline.
isOnlineAlways == TRUE

\* isOnline(): NetInfo.fetch() says connected and internet reachable.
isOnline == online

\* pushToRemote, create/update branch after the remote accepted the entry:
\* markExpenseAsSynced, removeFromSyncQueue.
pushAccepted(q, exps, item) ==
    [queue |-> removeFromSyncQueue(q, item.id),
     expenses |-> markExpenseAsSynced(exps, item.expense_id)]

\* pushToRemote, delete branch after the remote accepted the entry.
pushDeleteAccepted(q, exps, item) ==
    [queue |-> removeFromSyncQueue(q, item.id), expenses |-> exps]

\* The catch of one entry without incrementSyncRetryCount.
pushFailedNoRetry(q, exps, item) ==
    [queue |-> q,
     expenses |-> markExpenseSyncFailed(exps, item.expense_id, SyncErr)]

\* pushToRemote's catch of one entry: incrementSyncRetryCount,
\* markExpenseSyncFailed.
pushFailed(q, exps, item) ==
    [queue |-> incrementSyncRetryCount(q, item.id),
     expenses |-> markExpenseSyncFailed(exps, item.expense_id, SyncErr)]

\* A pull that leaves rows with unsynced local edits alone.
pullUpsertSkipsUnsynced(db, rem, fetched) ==
    [expenses |->
        [id \in Ids |->
            IF id \in fetched
               /\ (db.expenses[id] = NoRow \/ db.expenses[id].synced = 1)
            THEN upsertExpenseFromRemote(db, id, rem[id]).expenses[id]
            ELSE db.expenses[id]],
     queue |-> db.queue]

RECURSIVE pullUpsertAll(_, _, _)
\* pullFromRemote's loop: upsertExpenseFromRemote for every row of fetched.
pullUpsertAll(db, rem, fetched) ==
    IF fetched = {} THEN db
    ELSE LET id == CHOOSE x \in fetched : \A y \in fetched : x <= y
         IN pullUpsertAll(upsertExpenseFromRemote(db, id, rem[id]), rem,
                          fetched \ {id})

\* ------------------------------------------------------------------ Init
Init ==
    /\ expenses = [id \in Ids |-> NoRow]
    /\ sync_queue = <<>>
    /\ nextQid = 1
    /\ nextId = 1
    /\ remote = [id \in Ids |-> NoRow]
    /\ online \in BOOLEAN
    /\ cyc = EmptyBag
    /\ syncStatus = "idle"
    /\ result = NoResult
    /\ timers = 0
    /\ deleted = {}
    /\ intent = [id \in Ids |-> 0]
    /\ overlaps = 0
    /\ devices = NoDevices
    /\ cloud = NoDevices
    /\ cloudStamp = NoDevices
    /\ clock = 0
    /\ lastEdit = NoDevices
    /\ user = UserId
    /\ shown = <<>>
    /\ addCalls = <<>>

\* ------------------------------------------------------ local operations
\* expenses-sqlite addExpense: a fresh id, the row with synced = 0, a create
\* entry.
AddExpense(v) ==
    /\ nextId <= MaxIds
    /\ KeyLeft(sync_queue, nextQid, nextId, "create")
    /\ expenses' = [expenses EXCEPT ![nextId] = NewRow(v)]
    /\ sync_queue' = addToSyncQueue(sync_queue, nextQid, nextId, "create")
    /\ nextQid' = QidAfter(sync_queue, sync_queue', nextQid)
    /\ nextId' = nextId + 1
    /\ intent' = [intent EXCEPT ![nextId] = v]
    /\ UNCHANGED <<remote, online, overlaps, cyc, syncStatus, timers,
                   deleted>>
    /\ result' = NoResult

\* expenses-sqlite updateExpense: UPDATE ... WHERE id = ? (no row: nothing
\* changes), then addToSyncQueue(id, "update").  v = 0 is a call without
\* fields, which returns "No fields to update" before any write.
UpdateExpense(id, v) ==
    /\ id < nextId
    /\ IF v = 0
       THEN UNCHANGED <<expenses, sync_queue, nextQid, intent>>
       ELSE /\ expenses' =
                  IF expenses[id] = NoRow THEN expenses
                  ELSE [expenses EXCEPT ![id] = [@ EXCEPT !.val = v, !.synced = 0]]
            /\ KeyLeft(sync_queue, nextQid, id, "update")
            /\ sync_queue' = addToSyncQueue(sync_queue, nextQid, id, "update")
            /\ nextQid' = QidAfter(sync_queue, sync_queue', nextQid)
            /\ intent' = IF expenses[id] = NoRow THEN intent
                         ELSE [intent EXCEPT ![id] = v]
    /\ UNCHANGED <<nextId, remote, online, overlaps, cyc, syncStatus, timers, deleted>>
    /\ result' = NoResult

\* deleteExpense without its addToSyncQueue.
deleteExpenseNoEnqueue(q, qid, id) == q

\* deleteExpense up to its DELETE statement: the queue entry is written.
deleteExpenseEnqueue(q, qid, id) == addToSyncQueue(q, qid, id, "delete")

\* deleteExpense's DELETE FROM expenses WHERE id = ?
deleteExpenseRow(exps, id) == [exps EXCEPT ![id] = NoRow]

\* expenses-sqlite deleteExpense: the delete entry first, then the row.
DeleteExpense(id) ==
    /\ id < nextId
    /\ KeyLeft(sync_queue, nextQid, id, "delete")
    /\ sync_queue' = deleteExpenseEnqueue(sync_queue, nextQid, id)
    /\ nextQid' = QidAfter(sync_queue, sync_queue', nextQid)
    /\ expenses' = deleteExpenseRow(expenses, id)
    /\ deleted' = IF expenses[id] = NoRow THEN deleted ELSE deleted \cup {id}
    /\ intent' = [intent EXCEPT ![id] = 0]
    /\ UNCHANGED <<nextId, remote, online, overlaps, cyc, syncStatus, timers>>
    /\ result' = NoResult

\* The process dies: what React holds and every suspended cycle is gone,
\* the two tables and the remote stay.
Restart ==
    /\ cyc' = EmptyBag
    /\ syncStatus' = "idle"
    /\ result' = NoResult
    /\ timers' = 0

\* The process dies at a point where nothing is half done.
Crash ==
    /\ Restart
    /\ UNCHANGED <<expenses, sync_queue, nextQid, nextId, remote, online, overlaps,
                   deleted, intent>>

\* deleteExpense interrupted between its two statements.
DeleteExpenseInterrupted(id) ==
    /\ id < nextId
    /\ KeyLeft(sync_queue, nextQid, id, "delete")
    /\ sync_queue' = deleteExpenseEnqueue(sync_queue, nextQid, id)
    /\ nextQid' = QidAfter(sync_queue, sync_queue', nextQid)
    /\ Restart
    /\ intent' = [intent EXCEPT ![id] = 0]
    /\ UNCHANGED <<expenses, nextId, remote, online, overlaps, deleted>>

\* NetInfo reports a change of connectivity.
NetChange ==
    /\ online' = ~online
    /\ UNCHANGED <<overlaps, expenses, sync_queue, nextQid, nextId, remote, cyc,
                   syncStatus, timers, deleted, intent>>
    /\ result' = NoResult

\* setTimeout(() => setSyncStatus('idle'), 3000) fires.
TimerFires ==
    /\ timers > 0
    /\ timers' = timers - 1
    /\ syncStatus' = "idle"
    /\ UNCHANGED <<expenses, sync_queue, nextQid, nextId, remote, online, overlaps, cyc,
                   deleted, intent>>
    /\ result' = NoResult

\* ----------------------------------------------------------- sync cycles
\* A trigger starts a cycle: kind "sync" is SyncProvider.sync (initial sync,
\* foreground, manual), "auto" the NetInfo listener of setupAutoSync, which
\* runs only on a connected event, "force" SyncProvider.forcePull.  No
\* trigger looks at the cycles already suspended.  The cycle runs up to its
\* first remote call: the connectivity check, removeDuplicateSyncQueueEntries,
\* getSyncQueue and the loop up to the first entry to send.
Start(kind) ==
    /\ InFlight < NCycles
    /\ (isOnline /\ InFlight >= 1) => overlaps < MaxOverlaps
    /\ kind = "auto" => online
    /\ kind # "auto" => timers + TimedInFlight < MaxTimers
    /\ IF ~isOnline
       THEN /\ Deliver(kind, OfflineResult)
            /\ UNCHANGED <<expenses, sync_queue, cyc>>
       ELSE /\ syncStatus' = (IF kind = "auto" THEN syncStatus ELSE "syncing")
            /\ result' = NoResult
            /\ UNCHANGED <<timers, expenses>>
            /\ IF kind = "force"
               THEN /\ cyc' = With(cyc, [pc |-> "pull", kind |-> kind,
                                         items |-> <<>>, data |-> 0,
                                         pushed |-> 0, errors |-> <<>>])
                    /\ UNCHANGED sync_queue
               ELSE LET q0 == removeDuplicateSyncQueueEntries(sync_queue)
                        nd == NextDispatch(getSyncQueue(q0), q0, expenses)
                    IN /\ sync_queue' = nd.queue
                       /\ cyc' = With(cyc, Suspend(kind, nd, expenses, 0, <<>>))
    /\ overlaps' = IF isOnline /\ InFlight >= 1 THEN overlaps + 1 ELSE overlaps
    /\ UNCHANGED <<nextQid, nextId, remote, online, deleted, intent>>

\* The loop of cycle r goes on after the entry Head(r.items) was handled,
\* leaving the tables as t (queue, expenses).
Continue(r, t, pushed, errors) ==
    LET nd == NextDispatch(Tail(r.items), t.queue, t.expenses)
    IN /\ sync_queue' = nd.queue
       /\ expenses' = t.expenses
       /\ cyc' = With(Without(cyc, r),
                      Suspend(r.kind, nd, t.expenses, pushed, errors))

\* A failure that ends the push phase: the bookkeeping of the catch, then
\* straight to the pull with the rest of the snapshot left alone.
FailStops(r) ==
    LET item == Head(r.items)
        t == pushFailed(sync_queue, expenses, item)
    IN /\ sync_queue' = t.queue
       /\ expenses' = t.expenses
       /\ cyc' = With(Without(cyc, r),
                      Suspend(r.kind, [items |-> <<>>, queue |-> t.queue],
                              t.expenses, r.pushed,
                              Append(r.errors,
                                     ErrorEntry(item.operation, item.expense_id))))

\* The entry failed: errors.push, the retry count, the diagnostic.
Fail(r) ==
    LET item == Head(r.items)
    IN Continue(r, pushFailed(sync_queue, expenses, item), r.pushed,
                Append(r.errors, ErrorEntry(item.operation, item.expense_id)))

\* The answer to supabaseExpenses.addExpense for a create entry: no error and
\* a duplicate key are success, any other error is thrown.
CreateResponse(r, o) ==
    /\ r.pc = "create"
    /\ LET item == Head(r.items)
           a == remoteAddExpense(remote, item.expense_id, r.data, UserId, o)
       IN /\ remote' = a.remote
          /\ IF a.error \in {"none", "duplicate"}
             THEN Continue(r, pushAccepted(sync_queue, expenses, item),
                           r.pushed + 1, r.errors)
             ELSE Fail(r)
    /\ result' = NoResult
    /\ UNCHANGED <<nextQid, nextId, online, overlaps, syncStatus, timers, deleted, intent>>

\* An update branch without the create after a failed update: the error of
\* the update is thrown.
UpdateResponseNoFallback(r, o) ==
    /\ r.pc = "update"
    /\ LET item == Head(r.items)
           a == remoteUpdateExpense(remote, item.expense_id, r.data, o)
       IN /\ remote' = a.remote
          /\ IF a.error = "none"
             THEN Continue(r, pushAccepted(sync_queue, expenses, item),
                           r.pushed + 1, r.errors)
             ELSE Fail(r)
    /\ result' = NoResult
    /\ UNCHANGED <<nextQid, nextId, online, overlaps, syncStatus, timers,
                   deleted, intent>>

\* The answer to supabaseExpenses.updateExpense for an update entry: any
\* error leads to the create with the same id and data.
UpdateResponse(r, o) ==
    /\ r.pc = "update"
    /\ LET item == Head(r.items)
           a == remoteUpdateExpense(remote, item.expense_id, r.data, o)
       IN /\ remote' = a.remote
          /\ IF a.error = "none"
             THEN Continue(r, pushAccepted(sync_queue, expenses, item),
                           r.pushed + 1, r.errors)
             ELSE /\ cyc' = With(Without(cyc, r), [r EXCEPT !.pc = "fallback"])
                  /\ UNCHANGED <<sync_queue, expenses>>
    /\ result' = NoResult
    /\ UNCHANGED <<nextQid, nextId, online, overlaps, syncStatus, timers, deleted, intent>>

\* The answer to the create that follows a failed update: any error,
\* a duplicate key included, is thrown.
FallbackResponse(r, o) ==
    /\ r.pc = "fallback"
    /\ LET item == Head(r.items)
           a == remoteAddExpense(remote, item.expense_id, r.data, UserId, o)
       IN /\ remote' = a.remote
          /\ IF a.error = "none"
             THEN Continue(r, pushAccepted(sync_queue, expenses, item),
                           r.pushed + 1, r.errors)
             ELSE Fail(r)
    /\ result' = NoResult
    /\ UNCHANGED <<nextQid, nextId, online, overlaps, syncStatus, timers, deleted, intent>>

\* The answer to supabaseExpenses.deleteExpense for a delete entry.
DeleteResponse(r, o) ==
    /\ r.pc = "delete"
    /\ o \in {"notfound", "invalid"} => remote[Head(r.items).expense_id] = NoRow
    /\ LET item == Head(r.items)
           a == remoteDeleteExpense(remote, item.expense_id, o)
       IN /\ remote' = a.remote
          /\ IF a.error = "none" \/ deleteErrorIgnored(a.error)
             THEN /\ Continue(r, pushDeleteAccepted(sync_queue, expenses, item),
                              r.pushed + 1, r.errors)
                  /\ deleted' = deleted \ {item.expense_id}
             ELSE /\ Fail(r)
                  /\ UNCHANGED deleted
    /\ result' = NoResult
    /\ UNCHANGED <<nextQid, nextId, online, overlaps, syncStatus, timers, intent>>

\* A pull that makes the local table a copy of the remote's answer: rows the
\* remote did not return are removed.
PullResponseReplaces(r, o) ==
    /\ r.pc = "pull"
    /\ o \in {"ok", "fail"}
    /\ LET fetched == remoteGetExpenses(remote, UserId)
           pulled == IF o = "ok" THEN Cardinality(fetched) ELSE 0
           pullErrors == IF o = "ok" THEN <<>> ELSE <<ErrorEntry("pull", 0)>>
           db == [expenses |-> [id \in Ids |-> NoRow], queue |-> sync_queue]
           after == IF o = "ok" THEN pullUpsertAll(db, remote, fetched)
                    ELSE [expenses |-> expenses, queue |-> sync_queue]
       IN /\ expenses' = after.expenses
          /\ sync_queue' = after.queue
          /\ Deliver(r.kind, SyncResult(r.pushed, pulled, r.errors \o pullErrors))
    /\ cyc' = Without(cyc, r)
    /\ UNCHANGED <<nextQid, nextId, remote, online, overlaps, deleted, intent>>

\* The answer to supabaseExpenses.getExpenses: every row fetched is upserted,
\* then syncExpenses (forcePullFromRemote) returns its result.
PullResponse(r, o) ==
    /\ r.pc = "pull"
    /\ o \in {"ok", "fail"}
    /\ LET fetched == remoteGetExpenses(remote, UserId)
           pulled == IF o = "ok" THEN Cardinality(fetched) ELSE 0
           pullErrors == IF o = "ok" THEN <<>> ELSE <<ErrorEntry("pull", 0)>>
           db == [expenses |-> expenses, queue |-> sync_queue]
           after == IF o = "ok" THEN pullUpsertAll(db, remote, fetched) ELSE db
       IN /\ expenses' = after.expenses
          /\ sync_queue' = after.queue
          /\ Deliver(r.kind, SyncResult(r.pushed, pulled, r.errors \o pullErrors))
    /\ cyc' = Without(cyc, r)
    /\ UNCHANGED <<nextQid, nextId, remote, online, overlaps, deleted, intent>>

Next ==
    \/ (\E v \in Vals : AddExpense(v)) /\ UNCHANGED <<tdvars, ctxvars>>
    \/ (\E id \in Ids, v \in Vals \cup {0} : UpdateExpense(id, v)) /\ UNCHANGED <<tdvars, ctxvars>>
    \/ (\E id \in Ids : DeleteExpense(id)) /\ UNCHANGED <<tdvars, ctxvars>>
    \/ (\E id \in Ids : DeleteExpenseInterrupted(id)) /\ UNCHANGED <<tdvars, ctxvars>>
    \/ Crash /\ UNCHANGED <<tdvars, ctxvars>>
    \/ NetChange /\ UNCHANGED <<tdvars, ctxvars>>
    \/ TimerFires /\ UNCHANGED <<tdvars, ctxvars>>
    \/ (\E kind \in {"sync", "auto", "force"} : Start(kind)) /\ UNCHANGED <<tdvars, ctxvars>>
    \/ (\E r \in Cycles, o \in Outcomes : CreateResponse(r, o)) /\ UNCHANGED <<tdvars, ctxvars>>
    \/ (\E r \in Cycles, o \in Outcomes : UpdateResponse(r, o)) /\ UNCHANGED <<tdvars, ctxvars>>
    \/ (\E r \in Cycles, o \in Outcomes : FallbackResponse(r, o)) /\ UNCHANGED <<tdvars, ctxvars>>
    \/ (\E r \in Cycles, o \in DeleteOutcomes : DeleteResponse(r, o)) /\ UNCHANGED <<tdvars, ctxvars>>
    \/ (\E r \in Cycles, o \in Outcomes : PullResponse(r, o)) /\ UNCHANGED <<tdvars, ctxvars>>

Spec == Init /\ [][Next]_vars

\* ------------------------------------------------ two devices, one remote
\* The same program on two devices of one user.  Each device has its own
\* SQLite database; both push to and pull from one remote table.  A cycle
\* of a device runs here without interruption and every remote call of it
\* is answered.  Rows carry updated_at, read from the clock.
Devices == {"A", "B"}

\* The clock stops at MaxClock.
MaxClock == 4

\* The record both devices start with.
SharedId == CHOOSE id \in Ids : \A other \in Ids : id <= other

\* The local table after upsertExpenseFromRemote stored the shared record.
SharedRows ==
    upsertExpenseFromRemote([expenses |-> [id \in Ids |-> NoRow],
                             queue |-> <<>>],
                            SharedId, RemoteRow(1, UserId)).expenses

\* One record exists: device A made it, pushed it, and both devices pulled
\* it.  Both devices are offline.
InitTwoDevices ==
    /\ expenses = [id \in Ids |-> NoRow]
    /\ sync_queue = <<>>
    /\ nextQid = 1
    /\ nextId = 1
    /\ remote = [id \in Ids |-> NoRow]
    /\ online = FALSE
    /\ cyc = EmptyBag
    /\ syncStatus = "idle"
    /\ result = NoResult
    /\ timers = 0
    /\ deleted = {}
    /\ intent = [id \in Ids |-> 0]
    /\ overlaps = 0
    /\ devices = [d \in Devices |->
                    [expenses |-> SharedRows, sync_queue |-> <<>>,
                     nextQid |-> 1, created_at |-> [id \in Ids |-> 0],
                     updated_at |-> [id \in Ids |-> 0],
                     online |-> FALSE, returned |-> NoResult]]
    /\ cloud = [id \in Ids |-> IF id = SharedId THEN RemoteRow(1, UserId)
                                ELSE NoRow]
    /\ cloudStamp = [id \in Ids |-> [created_at |-> 0, updated_at |-> 0]]
    /\ clock = 0
    /\ lastEdit = [id \in Ids |-> [val |-> 0, offline |-> {}]]
    /\ user = UserId
    /\ shown = <<>>
    /\ addCalls = <<>>

\* expenses-sqlite updateExpense on device d: UPDATE ... WHERE id = ? writes
\* the fields, updated_at = now and synced = 0 (no row with that id: nothing
\* is written), then addToSyncQueue(id, "update"); the call returns no
\* error.
DeviceUpdateExpense(d, id, v) ==
    /\ clock < MaxClock
    /\ LET D == devices[d]
           known == D.expenses[id] # NoRow
           q2 == addToSyncQueue(D.sync_queue, D.nextQid, id, "update")
       IN /\ devices' =
                [devices EXCEPT ![d] =
                    [D EXCEPT
                       !.returned = [error |-> NoErr],
                       !.expenses =
                           IF known
                           THEN [@ EXCEPT ![id] =
                                   [@ EXCEPT !.val = v, !.synced = 0]]
                           ELSE @,
                       !.updated_at =
                           IF known THEN [@ EXCEPT ![id] = clock + 1] ELSE @,
                       !.sync_queue = q2,
                       !.nextQid = QidAfter(D.sync_queue, q2, D.nextQid)]]
          /\ lastEdit' =
                IF known
                THEN [lastEdit EXCEPT ![id] =
                        [val |-> v,
                         offline |-> IF D.online THEN @.offline
                                     ELSE @.offline \cup {d}]]
                ELSE lastEdit
    /\ clock' = clock + 1
    /\ UNCHANGED <<cloud, cloudStamp>>

\* The ways the two INSERTs of addExpense can end: both written, the INSERT
\* INTO expenses throws, the INSERT INTO sync_queue throws.
Writes == {"ok", "rowfail", "queuefail"}

\* The ids generateUUID can still return: those no table holds or names.
FreshIds ==
    {id \in Ids :
        /\ cloud[id] = NoRow
        /\ \A d \in Devices :
              /\ devices[d].expenses[id] = NoRow
              /\ \A e \in QueueEntries(devices[d].sync_queue) :
                    e.expense_id # id}

\* The id the next generateUUID returns.
FreshId == CHOOSE id \in FreshIds : \A other \in FreshIds : id <= other

\* expenses-sqlite addExpense on device d: INSERT INTO expenses with
\* created_at = updated_at = now and synced = 0, then addToSyncQueue(id,
\* "create"), which catches what its INSERT throws; a throw of the first
\* INSERT is caught by addExpense and returned as the error.
DeviceAddExpense(d, v, w) ==
    /\ clock < MaxClock
    /\ FreshIds # {}
    /\ LET D == devices[d]
           id == FreshId
           q2 == IF w = "ok"
                 THEN addToSyncQueue(D.sync_queue, D.nextQid, id, "create")
                 ELSE D.sync_queue
       IN devices' =
            [devices EXCEPT ![d] =
                IF w = "rowfail"
                THEN [D EXCEPT !.returned = [error |-> SyncErr]]
                ELSE [D EXCEPT
                        !.expenses = [@ EXCEPT ![id] = NewRow(v)],
                        !.created_at = [@ EXCEPT ![id] = clock + 1],
                        !.updated_at = [@ EXCEPT ![id] = clock + 1],
                        !.sync_queue = q2,
                        !.nextQid = QidAfter(D.sync_queue, q2, D.nextQid),
                        !.returned = [error |-> NoErr]]]
    /\ clock' = clock + 1
    /\ UNCHANGED <<cloud, cloudStamp, lastEdit>>

\* The connectivity of device d changes.
DeviceNetChange(d) ==
    /\ devices' = [devices EXCEPT ![d].online = ~@]
    /\ UNCHANGED <<cloud, cloudStamp, clock, lastEdit>>

RECURSIVE pushAllAnswered(_, _, _, _)
\* pushToRemote's loop over the snapshot items when the remote answers every
\* call: st holds the device's two tables, the remote table and its
\* updated_at column; now is what new Date() reads in
\* supabaseExpenses.updateExpense, and what the remote's default now() gives
\* a created row.
pushAllAnswered(userId, items, st, now) ==
    LET nd == NextDispatch(items, st.queue, st.expenses)
    IN IF nd.items = <<>> THEN [st EXCEPT !.queue = nd.queue]
       ELSE LET item == Head(nd.items)
                id == item.expense_id
                acc == pushAccepted(nd.queue, st.expenses, item)
                updated == [st.stamp EXCEPT ![id].updated_at = now]
                created == [st.stamp EXCEPT ![id] =
                              [created_at |-> now, updated_at |-> now]]
            IN IF item.operation = "delete"
               THEN pushAllAnswered(
                        userId, Tail(nd.items),
                        [st EXCEPT
                           !.queue = pushDeleteAccepted(nd.queue, st.expenses,
                                                        item).queue,
                           !.remote = remoteDeleteExpense(st.remote, id,
                                                          "ok").remote],
                        now)
               ELSE LET v == st.expenses[id].val
                        upd == remoteUpdateExpense(st.remote, id, v, "ok")
                        add == remoteAddExpense(st.remote, id, v, userId, "ok")
                        updated1 == item.operation = "update"
                                    /\ upd.error = "none"
                        a == IF updated1 THEN upd ELSE add
                        accepted ==
                            \/ a.error = "none"
                            \/ item.operation = "create"
                               /\ a.error = "duplicate"
                    IN IF accepted
                       THEN pushAllAnswered(
                                userId, Tail(nd.items),
                                [queue |-> acc.queue,
                                 expenses |-> acc.expenses,
                                 remote |-> a.remote,
                                 stamp |-> IF a.error # "none" THEN st.stamp
                                           ELSE IF updated1 THEN updated
                                           ELSE created],
                                now)
                       ELSE pushAllAnswered(
                                userId, Tail(nd.items),
                                [st EXCEPT
                                   !.queue = pushFailed(nd.queue, st.expenses,
                                                        item).queue,
                                   !.expenses = pushFailed(nd.queue,
                                                           st.expenses,
                                                           item).expenses],
                                now)

\* syncExpenses on device d while it is online: the push of every queue
\* entry, then the pull, which stores every remote row as it is, its
\* updated_at included.
DeviceSync(d) ==
    /\ devices[d].online
    /\ devices[d].sync_queue = <<>> \/ clock < MaxClock
    /\ LET D == devices[d]
           q0 == removeDuplicateSyncQueueEntries(D.sync_queue)
           now == IF q0 = <<>> THEN clock ELSE clock + 1
           pushed == pushAllAnswered(
                         UserId, getSyncQueue(q0),
                         [queue |-> q0, expenses |-> D.expenses,
                          remote |-> cloud, stamp |-> cloudStamp],
                         now)
           fetched == remoteGetExpenses(pushed.remote, UserId)
           pulled == pullUpsertAll([expenses |-> pushed.expenses,
                                    queue |-> pushed.queue],
                                   pushed.remote, fetched)
       IN /\ cloud' = pushed.remote
          /\ cloudStamp' = pushed.stamp
          /\ clock' = now
          /\ devices' =
                [devices EXCEPT ![d] =
                    [D EXCEPT
                       !.expenses = pulled.expenses,
                       !.sync_queue = pulled.queue,
                       !.created_at =
                           [id \in Ids |->
                               IF id \in fetched
                               THEN pushed.stamp[id].created_at
                               ELSE D.created_at[id]],
                       !.updated_at =
                           [id \in Ids |->
                               IF id \in fetched
                               THEN pushed.stamp[id].updated_at
                               ELSE D.updated_at[id]]]]
    /\ UNCHANGED lastEdit

NextTwoDevices ==
    \/ (\E d \in Devices, v \in Vals, w \in Writes :
           DeviceAddExpense(d, v, w)) /\ UNCHANGED
              <<expenses, sync_queue, nextQid, nextId, remote, online, cyc,
                syncStatus, result, timers, deleted, intent, overlaps,
                ctxvars>>
    \/ (\E d \in Devices, id \in Ids, v \in Vals :
           DeviceUpdateExpense(d, id, v)) /\ UNCHANGED
              <<expenses, sync_queue, nextQid, nextId, remote, online, cyc,
                syncStatus, result, timers, deleted, intent, overlaps,
                ctxvars>>
    \/ (\E d \in Devices : DeviceNetChange(d)) /\ UNCHANGED
              <<expenses, sync_queue, nextQid, nextId, remote, online, cyc,
                syncStatus, result, timers, deleted, intent, overlaps,
                ctxvars>>
    \/ (\E d \in Devices : DeviceSync(d)) /\ UNCHANGED
              <<expenses, sync_queue, nextQid, nextId, remote, online, cyc,
                syncStatus, result, timers, deleted, intent, overlaps,
                ctxvars>>

SpecTwoDevices == InitTwoDevices /\ [][NextTwoDevices]_vars

\* ------------------------------------------------ owners on one device
\* One device on which owners sign in and out, seen from ExpensesProvider.
\* The tables are those of the one-device configuration; a cycle runs
\* without interruption and every remote call of it is answered.
Owners == {"u1", "u2"}

\* AuthContext's user when nobody is signed in.
NoUser == "none"

\* The columns the remote stamps, not followed in this configuration.
NoStamps == [id \in Ids |-> [created_at |-> 0, updated_at |-> 0]]

\* addExpense calls that can await the store at the same time.
MaxAdds == 2

\* The one-device state ExpensesProvider does not touch.
idlevars == <<cyc, syncStatus, result, timers, deleted, intent, overlaps,
              devices, cloud, cloudStamp, lastEdit>>

InitOwners ==
    /\ expenses = [id \in Ids |-> NoRow]
    /\ sync_queue = <<>>
    /\ nextQid = 1
    /\ nextId = 1
    /\ remote = [id \in Ids |-> NoRow]
    /\ online \in BOOLEAN
    /\ cyc = EmptyBag
    /\ syncStatus = "idle"
    /\ result = NoResult
    /\ timers = 0
    /\ deleted = {}
    /\ intent = [id \in Ids |-> 0]
    /\ overlaps = 0
    /\ devices = NoDevices
    /\ cloud = NoDevices
    /\ cloudStamp = NoDevices
    /\ clock = 0
    /\ lastEdit = NoDevices
    /\ user = NoUser
    /\ shown = <<>>
    /\ addCalls = <<>>

\* An element of the in-memory list: the placeholder with id temp-<t>, or
\* the stored record id.
Placeholder(t, v) == [temp |-> TRUE, id |-> t, val |-> v]
Stored(id, v) == [temp |-> FALSE, id |-> id, val |-> v]

RECURSIVE getExpensesOf(_, _, _)
\* expenses-sqlite getExpenses(userId): the rows of userId among the ids
\* up to n, as list elements.
getExpensesOf(exps, userId, n) ==
    IF n = 0 THEN <<>>
    ELSE IF exps[n] # NoRow /\ exps[n].user_id = userId
    THEN <<Stored(n, exps[n].val)>> \o getExpensesOf(exps, userId, n - 1)
    ELSE getExpensesOf(exps, userId, n - 1)

\* A millisecond passes: Date.now() changes.
Tick ==
    /\ clock < MaxClock
    /\ clock' = clock + 1
    /\ UNCHANGED <<expenses, sync_queue, nextQid, nextId, remote, online,
                   user, shown, addCalls>>

\* AuthContext: a session starts for owner u; ExpensesProvider loads the
\* owner's rows.
SignIn(u) ==
    /\ user = NoUser
    /\ user' = u
    /\ shown' = getExpensesOf(expenses, u, MaxIds)
    /\ UNCHANGED <<expenses, sync_queue, nextQid, nextId, remote, online,
                   clock, addCalls>>

\* AuthContext signOut: supabase.auth.signOut(); the listener sets user to
\* null and ExpensesProvider empties its in-memory list.  No table of the
\* local database is written.
SignOut ==
    /\ user # NoUser
    /\ user' = NoUser
    /\ shown' = <<>>
    /\ UNCHANGED <<expenses, sync_queue, nextQid, nextId, remote, online,
                   clock, addCalls>>

\* ExpensesContext addExpense for the signed-in owner, up to its await: the
\* placeholder temp-<Date.now()> is put in front of the list and
\* expenses-sqlite addExpense(expense, user.id) runs, its writes ending as w.
OwnerAddExpense(v, w) ==
    /\ user # NoUser
    /\ nextId <= MaxIds
    /\ Len(addCalls) < MaxAdds
    /\ shown' = <<Placeholder(clock, v)>> \o shown
    /\ IF w = "rowfail"
       THEN /\ UNCHANGED <<expenses, sync_queue, nextQid, nextId>>
            /\ addCalls' = Append(addCalls,
                                  [tempId |-> clock, error |-> SyncErr,
                                   data |-> Stored(0, v)])
       ELSE /\ expenses' = [expenses EXCEPT
                              ![nextId] = [NewRow(v) EXCEPT !.user_id = user]]
            /\ sync_queue' =
                  IF w = "ok"
                  THEN addToSyncQueue(sync_queue, nextQid, nextId, "create")
                  ELSE sync_queue
            /\ nextQid' = QidAfter(sync_queue, sync_queue', nextQid)
            /\ nextId' = nextId + 1
            /\ addCalls' = Append(addCalls,
                                  [tempId |-> clock, error |-> NoErr,
                                   data |-> Stored(nextId, v)])
    /\ UNCHANGED <<remote, online, user, clock>>

\* The list without the elements in drop.
RECURSIVE FilterOut(_, _)
FilterOut(l, drop) ==
    IF l = <<>> THEN <<>>
    ELSE IF Head(l) \in drop THEN FilterOut(Tail(l), drop)
    ELSE <<Head(l)>> \o FilterOut(Tail(l), drop)

\* ExpensesContext addExpense after its await, for the i-th call in
\* flight: on an error the elements with the call's temp id are filtered
\* out, otherwise they are mapped to the stored record.
AddReturns(i) ==
    /\ i \in 1..Len(addCalls)
    /\ LET c == addCalls[i]
           isTemp(e) == e.temp /\ e.id = c.tempId
       IN shown' =
            IF c.error # NoErr
            THEN FilterOut(shown,
                           {shown[k] : k \in {j \in 1..Len(shown) :
                                                isTemp(shown[j])}})
            ELSE [k \in 1..Len(shown) |->
                     IF isTemp(shown[k]) THEN c.data ELSE shown[k]]
    /\ addCalls' = [k \in 1..(Len(addCalls) - 1) |->
                      IF k < i THEN addCalls[k] ELSE addCalls[k + 1]]
    /\ UNCHANGED <<expenses, sync_queue, nextQid, nextId, remote, online,
                   user, clock>>

\* The connectivity changes.
OwnerNetChange ==
    /\ online' = ~online
    /\ UNCHANGED <<expenses, sync_queue, nextQid, nextId, remote, user,
                   clock, shown, addCalls>>

\* syncExpenses(user.id) while online: pushToRemote(userId) over the whole
\* queue, then pullFromRemote(userId) over the remote rows of userId.
OwnerSync ==
    /\ user # NoUser
    /\ online
    /\ LET q0 == removeDuplicateSyncQueueEntries(sync_queue)
           pushed == pushAllAnswered(
                         user, getSyncQueue(q0),
                         [queue |-> q0, expenses |-> expenses,
                          remote |-> remote, stamp |-> NoStamps],
                         0)
           fetched == remoteGetExpenses(pushed.remote, user)
           pulled == pullUpsertAll([expenses |-> pushed.expenses,
                                    queue |-> pushed.queue],
                                   pushed.remote, fetched)
       IN /\ remote' = pushed.remote
          /\ expenses' = pulled.expenses
          /\ sync_queue' = pulled.queue
    /\ UNCHANGED <<nextQid, nextId, online, user, clock, shown, addCalls>>

NextOwners ==
    \/ Tick /\ UNCHANGED idlevars
    \/ (\E u \in Owners : SignIn(u)) /\ UNCHANGED idlevars
    \/ SignOut /\ UNCHANGED idlevars
    \/ (\E v \in Vals, w \in Writes : OwnerAddExpense(v, w))
          /\ UNCHANGED idlevars
    \/ (\E i \in 1..MaxAdds : AddReturns(i)) /\ UNCHANGED idlevars
    \/ OwnerNetChange /\ UNCHANGED idlevars
    \/ OwnerSync /\ UNCHANGED idlevars

SpecOwners == InitOwners /\ [][NextOwners]_vars

\* ================================================================ claims
InQueue(q, qid) == \E e \in QueueEntries(q) : e.id = qid

EntryOf(q, qid) == CHOOSE e \in QueueEntries(q) : e.id = qid

\* The step is updateExpense (with fields) or deleteExpense, whole or
\* interrupted, enqueueing op for id.
Enqueues(id, op) ==
    \/ op = "update" /\ \E v \in Vals : UpdateExpense(id, v)
    \/ op = "delete" /\ (DeleteExpense(id) \/ DeleteExpenseInterrupted(id))

\* The step took one copy of cycle r out of the suspended cycles, as every
\* answer to r does.
Answered(r) == CopiesIn(r, cyc') < CopiesIn(r, cyc)

NoDuplicateEntries ==
    \A i, j \in 1..Len(sync_queue) :
        (/\ sync_queue[i].expense_id = sync_queue[j].expense_id
         /\ sync_queue[i].operation = sync_queue[j].operation) => i = j

\* C1: in every reachable state the sync queue holds at most one entry per
\* (expense_id, operation), and a step that enqueues an operation already
\* queued for that record leaves the queue as it was.
C1_QueueDedup ==
    /\ []NoDuplicateEntries
    /\ [][\A id \in Ids, op \in {"update", "delete"} :
            (HasEntry(sync_queue, id, op) /\ Enqueues(id, op))
                => sync_queue' = sync_queue]_vars

\* C1 witness: an update entry is being pushed with the values read when it
\* was dispatched, the row was edited again since (still unsynced, other
\* values), and the queue holds that one update entry.
C1_Witness ==
    \E r \in Cycles :
        /\ r.pc = "update"
        /\ Head(r.items) \in QueueEntries(sync_queue)
        /\ expenses[Head(r.items).expense_id] # NoRow
        /\ expenses[Head(r.items).expense_id].synced = 0
        /\ expenses[Head(r.items).expense_id].val # r.data

\* No cycle is in the middle of its push phase.
BetweenPhases == \A r \in Cycles : r.pc = "pull"

\* C2 (as claimed): between operations and after every push and pull phase,
\* a row with synced = 1 has no queue entry referencing its id (so a row
\* with a pending create or update entry has synced = 0).
C2_SyncedHasNoEntry ==
    BetweenPhases =>
        \A id \in Ids :
            (expenses[id] # NoRow /\ expenses[id].synced = 1)
                => ~\E e \in QueueEntries(sync_queue) : e.expense_id = id

\* C3 (as claimed): at most one sync cycle is in flight.
C3_SingleCycle == InFlight <= 1

\* A create or update entry for id that a later push still sends.
Pending(id) ==
    \E e \in QueueEntries(sync_queue) :
        /\ e.expense_id = id
        /\ e.operation \in {"create", "update"}
        /\ e.retry_count < MAX_RETRIES

\* C4 (as claimed): the value of the latest local create or update of a
\* record is what the remote holds, or the local row still holds it and a
\* create or update entry a later push sends is queued.  (The row's synced
\* flag is left out here: it is what C2 is about.)
C4_NoLostMutation ==
    \A id \in Ids :
        intent[id] # 0 =>
            \/ remote[id] # NoRow /\ remote[id].val = intent[id]
            \/ /\ expenses[id] # NoRow
               /\ expenses[id].val = intent[id]
               /\ Pending(id)

C6_PullKeepsQueue ==
    [][\A r \in Cycles, o \in {"ok", "fail"} :
          (Answered(r) /\ PullResponse(r, o)) => sync_queue' = sync_queue]_vars

\* C6 witness: a pull just upserted a row while the queue holds an entry
\* that has failed before.
C6_Witness ==
    /\ result # NoResult
    /\ result.pulled >= 1
    /\ \E e \in QueueEntries(sync_queue) : e.retry_count >= 1

\* C7: a cycle started while the connectivity check says offline returns
\* pushed = 0 and pulled = 0 at once, suspends on no remote call, and leaves
\* the queue, the rows and the remote as they were.
C7_OfflineNoOp ==
    [][\A kind \in {"sync", "auto", "force"} :
          (~online /\ Start(kind)) =>
              /\ result' # NoResult
              /\ result'.pushed = 0
              /\ result'.pulled = 0
              /\ UNCHANGED <<sync_queue, expenses, remote, cyc>>]_vars

\* C7 witness: a cycle just returned its offline result while entries were
\* waiting in the queue.
C7_Witness ==
    /\ ~online
    /\ result = OfflineResult
    /\ Len(sync_queue) >= 1

\* C8 (as claimed): the result of a cycle started offline has no error
\* entries, and the step does not set the status to 'error'.
C8_OfflineNotAnError ==
    [][\A kind \in {"sync", "auto", "force"} :
          (~online /\ Start(kind)) =>
              /\ result' # NoResult
              /\ result'.errors = <<>>
              /\ syncStatus' # "error"]_vars

\* C9 (as claimed): an entry with retry_count >= 3 stays in the queue (no
\* purge happens in this model), and no remote call is answered for it.
C9_CeilingEntryStays ==
    [][\A e \in QueueEntries(sync_queue) :
          e.retry_count >= MAX_RETRIES => InQueue(sync_queue', e.id)]_vars

\* The step is the answer that makes the entry of cycle r fail: an error
\* that is no duplicate key to a create, an error to the create after a
\* failed update, an error to a delete.
RealFailure(r, o) ==
    /\ Answered(r)
    /\ \/ /\ CreateResponse(r, o)
          /\ remoteAddExpense(remote, Head(r.items).expense_id, r.data,
                              UserId, o).error = "other"
       \/ /\ FallbackResponse(r, o)
          /\ remoteAddExpense(remote, Head(r.items).expense_id, r.data,
                              UserId, o).error = "other"
       \/ /\ DeleteResponse(r, o)
          /\ remoteDeleteExpense(remote, Head(r.items).expense_id,
                                 o).error = "other"

\* C10: the step that handles a real failure of an entry still queued adds
\* exactly one to its retry_count and keeps it in the queue; if the record
\* has a row, its sync_error is the error text and its synced flag is what
\* it was.
C10_FailureBookkeeping ==
    [][\A r \in Cycles, o \in Outcomes :
          (RealFailure(r, o) /\ InQueue(sync_queue, Head(r.items).id)) =>
              LET item == Head(r.items)
                  id == item.expense_id
              IN /\ InQueue(sync_queue', item.id)
                 /\ EntryOf(sync_queue', item.id).retry_count
                        = EntryOf(sync_queue, item.id).retry_count + 1
                 /\ expenses[id] # NoRow =>
                        /\ expenses'[id] # NoRow
                        /\ expenses'[id].sync_error = SyncErr
                        /\ expenses'[id].synced = expenses[id].synced]_vars

\* C10 witness: the push of a create or update entry failed: the entry is
\* queued with a retry count, the row is unsynced and carries the error.
C10_Witness ==
    \E e \in QueueEntries(sync_queue) :
        /\ e.retry_count >= 1
        /\ expenses[e.expense_id] # NoRow
        /\ expenses[e.expense_id].synced = 0
        /\ expenses[e.expense_id].sync_error = SyncErr

\* The push loop sends entry e of its snapshot: it is below the retry ceiling
\* and, unless it is a delete, its record still has a local row.
Dispatchable(e) ==
    /\ e.retry_count < MAX_RETRIES
    /\ e.operation = "delete" \/ expenses[e.expense_id] # NoRow

\* The positions from 2 on of the snapshot items whose entry the loop sends.
LaterDispatchable(items) ==
    {i \in 2..Len(items) : Dispatchable(items[i])}

\* C11: the step that handles a real failure of the entry a cycle sent keeps
\* the cycle going: with a later entry of its snapshot that is below the
\* retry ceiling (and, for a create or update, still has its local row) the
\* cycle now awaits the remote call of the first such entry, and with none
\* it awaits the fetch of the pull phase.
C11_FailureDoesNotStop ==
    [][\A r \in Cycles, o \in Outcomes :
          RealFailure(r, o) =>
              \E r2 \in BagToSet(cyc') :
                  /\ r2.kind = r.kind
                  /\ Len(r2.errors) = Len(r.errors) + 1
                  /\ IF LaterDispatchable(r.items) = {}
                     THEN r2.pc = "pull"
                     ELSE LET i == CHOOSE k \in LaterDispatchable(r.items) :
                                     \A j \in LaterDispatchable(r.items) : k <= j
                          IN /\ r2.pc = r.items[i].operation
                             /\ Head(r2.items) = r.items[i]]_vars

\* C11 witness: a cycle that recorded a failure awaits the remote call of a
\* later entry.
C11_Witness ==
    \E r \in Cycles : r.errors # <<>> /\ r.pc \in {"create", "update", "delete"}

\* The step is the answer "duplicate key" to a create the push phase of
\* cycle r made, for a create entry or after a failed update.
DuplicateAnswer(r, o) ==
    /\ Answered(r)
    /\ CreateResponse(r, o) \/ FallbackResponse(r, o)
    /\ remoteAddExpense(remote, Head(r.items).expense_id, r.data, UserId,
                        o).error = "duplicate"

\* C12 (as claimed): the step that handles a duplicate-key answer to a
\* create, for a create entry and for the create after a failed update
\* alike, removes the entry, does not touch its retry count, reports no
\* error, marks the row synced, and leaves the remote row as it was.
C12_DuplicateIsSuccess ==
    [][\A r \in Cycles, o \in Outcomes :
          (DuplicateAnswer(r, o) /\ InQueue(sync_queue, Head(r.items).id)) =>
              LET item == Head(r.items)
                  id == item.expense_id
              IN /\ ~InQueue(sync_queue', item.id)
                 /\ \A r2 \in BagToSet(cyc') \ Cycles :
                        Len(r2.errors) = Len(r.errors)
                 /\ expenses[id] # NoRow => expenses'[id].synced = 1
                 /\ remote' = remote]_vars

\* C13: the step that handles the answer "no row" to the remote update of an
\* update entry leaves both tables and the remote as they were and has the
\* cycle await a remote create for the same entry with the same data; the
\* step that handles the acceptance of that create leaves the remote row
\* with that id and data, removes the entry and marks the row synced.
C13_UpdateFallsBackToCreate ==
    /\ [][\A r \in Cycles :
            (/\ Answered(r)
             /\ UpdateResponse(r, "ok")
             /\ remote[Head(r.items).expense_id] = NoRow)
                => /\ [r EXCEPT !.pc = "fallback"] \in BagToSet(cyc')
                   /\ UNCHANGED <<sync_queue, expenses, remote>>]_vars
    /\ [][\A r \in Cycles :
            (/\ Answered(r)
             /\ FallbackResponse(r, "ok")
             /\ remote[Head(r.items).expense_id] = NoRow
             /\ InQueue(sync_queue, Head(r.items).id))
                => LET item == Head(r.items)
                       id == item.expense_id
                   IN /\ remote'[id] = RemoteRow(r.data, UserId)
                      /\ ~InQueue(sync_queue', item.id)
                      /\ expenses[id] # NoRow => expenses'[id].synced = 1]_vars

\* C13 witness: the remote update of an update entry found no row, and the
\* cycle awaits the create for it.
C13_Witness ==
    \E r \in Cycles :
        /\ r.pc = "fallback"
        /\ remote[Head(r.items).expense_id] = NoRow
        /\ Head(r.items) \in QueueEntries(sync_queue)

\* C14: the step that handles the answer to the remote delete of a delete
\* entry still queued removes the entry, counts it as pushed and reports no
\* error when the answer is no error, "not found" or "invalid UUID syntax";
\* with any other error it keeps the entry, adds one to its retry count and
\* reports an error.
C14_DeleteClassification ==
    [][\A r \in Cycles, o \in DeleteOutcomes :
          (/\ Answered(r)
           /\ DeleteResponse(r, o)
           /\ InQueue(sync_queue, Head(r.items).id)) =>
              LET item == Head(r.items)
                  error == remoteDeleteExpense(remote, item.expense_id, o).error
              IN \E r2 \in BagToSet(cyc') :
                    /\ r2.kind = r.kind
                    /\ IF error \in {"none", "notfound", "invalid"}
                       THEN /\ ~InQueue(sync_queue', item.id)
                            /\ r2.pushed = r.pushed + 1
                            /\ r2.errors = r.errors
                       ELSE /\ InQueue(sync_queue', item.id)
                            /\ EntryOf(sync_queue', item.id).retry_count
                                   = EntryOf(sync_queue, item.id).retry_count + 1
                            /\ r2.pushed = r.pushed
                            /\ Len(r2.errors) = Len(r.errors) + 1]_vars

\* C14 witness: a delete entry whose push failed once is sent again for a
\* record the remote has no row of.
C14_Witness ==
    \E r \in Cycles :
        /\ r.pc = "delete"
        /\ remote[Head(r.items).expense_id] = NoRow
        /\ Head(r.items) \in QueueEntries(sync_queue)
        /\ Head(r.items).retry_count >= 1

\* The step has a cycle send the entry Head(r2.items): r2 is a cycle that
\* awaits the first remote call for an entry and was not suspended before.
Sends(r2) ==
    /\ r2.pc \in {"create", "update", "delete"}
    /\ CopiesIn(r2, cyc') > CopiesIn(r2, cyc)

\* C15 (as claimed): whenever a push phase sends an entry of a record, no
\* entry enqueued later for the same record has been sent before (an entry
\* with a retry count above 0 has been sent and has failed).
C15_PerRecordOrder ==
    [][\A r2 \in BagToSet(cyc') :
          Sends(r2) =>
              \A e2 \in QueueEntries(sync_queue') :
                  (/\ e2.expense_id = Head(r2.items).expense_id
                   /\ e2.id > Head(r2.items).id) => e2.retry_count = 0]_vars

\* The entries of the queue q that name the record id.
EntriesOf(q, id) == {e \in QueueEntries(q) : e.expense_id = id}

BothSynced(id) ==
    /\ cloud[id] # NoRow
    /\ \A d \in Devices :
          /\ devices[d].sync_queue = <<>>
          /\ devices[d].expenses[id] # NoRow
          /\ devices[d].updated_at[id] = cloudStamp[id].updated_at

\* C17 (as claimed): after two devices edited the same record while offline
\* and both have synced and pulled again, the remote and both local stores
\* hold the edit with the later updated_at.
C17_LaterEditWins ==
    \A id \in Ids :
        (lastEdit[id].offline = Devices /\ BothSynced(id)) =>
            /\ cloud[id].val = lastEdit[id].val
            /\ \A d \in Devices :
                  devices[d].expenses[id].val = lastEdit[id].val

C19_UnknownIdChangesNothing ==
    [][\A d \in Devices, id \in Ids, v \in Vals :
          (devices[d].expenses[id] = NoRow /\ DeviceUpdateExpense(d, id, v))
              => /\ devices'[d].expenses = devices[d].expenses
                 /\ devices'[d].sync_queue = devices[d].sync_queue
                 /\ devices'[d].returned.error # NoErr]_vars

\* C20 (as claimed): whenever addExpense returns without an error, the local
\* store holds the new row under a fresh id with created_at = updated_at and
\* synced = 0, and the queue holds a create entry for it; a row or queue
\* entry that cannot be written is returned as a failure.
C20_AddExpenseSuccess ==
    [][\A d \in Devices, v \in Vals, w \in Writes :
          (DeviceAddExpense(d, v, w) /\ devices'[d].returned.error = NoErr)
              => LET id == FreshId
                     D == devices'[d]
                 IN /\ D.expenses[id] # NoRow
                    /\ D.expenses[id].val = v
                    /\ D.expenses[id].synced = 0
                    /\ D.created_at[id] = D.updated_at[id]
                    /\ HasEntry(D.sync_queue, id, "create")]_vars

\* The ids of the local rows of owner u.
RowsOf(exps, u) == {id \in Ids : exps[id] # NoRow /\ exps[id].user_id = u}

\* C21 (as claimed): after a sign-out the local store holds no expense row
\* of the owner who signed out and no queue entry for a record of that
\* owner.
C21_SignOutClears ==
    [][SignOut =>
          /\ RowsOf(expenses', user) = {}
          /\ \A e \in QueueEntries(sync_queue') :
                e.expense_id \notin RowsOf(expenses, user)]_vars

\* C22 (as claimed): a cycle run for owner U leaves alone what belongs to
\* another owner: no record of another owner is written to the remote, and
\* no queue entry for such a record is removed or has its retry_count
\* changed.
C22_OwnerScopedPush ==
    [][OwnerSync =>
          \A id \in Ids :
              (expenses[id] # NoRow /\ expenses[id].user_id # user) =>
                  /\ remote'[id] = remote[id]
                  /\ EntriesOf(sync_queue', id)
                        = EntriesOf(sync_queue, id)]_vars

\* C23 (as claimed): the status is "syncing" as long as a cycle started by
\* SyncProvider.sync or forcePull is suspended, and a status "success" or
\* "error" changes only when the next cycle begins, that is to "syncing".
C23_StatusFollowsCycle ==
    [][/\ TimedInFlight >= 1 => syncStatus = "syncing"
       /\ (syncStatus \in {"success", "error"} /\ syncStatus' # syncStatus)
              => syncStatus' = "syncing"]_vars

\* The step ends the handling of the entry Head(r.items) of cycle r: the
\* answer o of its last remote call arrives.
PushItemDone(r, o) ==
    /\ Answered(r)
    /\ \/ o \in Outcomes /\ CreateResponse(r, o)
       \/ o \in Outcomes /\ FallbackResponse(r, o)
       \/ DeleteResponse(r, o)
       \/ /\ o \in Outcomes
          /\ UpdateResponse(r, o)
          /\ remoteUpdateExpense(remote, Head(r.items).expense_id, r.data,
                                 o).error = "none"

\* The answer o makes the handling of the entry Head(r.items) throw.
PushItemThrows(r, o) ==
    LET id == Head(r.items).expense_id
    IN \/ /\ r.pc = "create"
          /\ remoteAddExpense(remote, id, r.data, UserId, o).error
                \notin {"none", "duplicate"}
       \/ /\ r.pc = "fallback"
          /\ remoteAddExpense(remote, id, r.data, UserId, o).error # "none"
       \/ /\ r.pc = "delete"
          /\ remoteDeleteExpense(remote, id, o).error
                \notin {"none", "notfound", "invalid"}

\* C24: whatever the remote answers, the cycle goes on and returns a result:
\* each entry whose handling throws adds exactly one error and every other
\* entry none, a failed pull adds one, and the result says success exactly
\* when its list of errors is empty.
C24_ErrorsAreAggregated ==
    [][/\ \A r \in Cycles, o \in DeleteOutcomes :
            PushItemDone(r, o) =>
                \E r2 \in BagToSet(cyc') :
                    /\ CopiesIn(r2, cyc') > CopiesIn(r2, cyc)
                    /\ Len(r2.errors) =
                          Len(r.errors) + (IF PushItemThrows(r, o) THEN 1
                                           ELSE 0)
       /\ \A r \in Cycles, o \in {"ok", "fail"} :
            (Answered(r) /\ PullResponse(r, o)) =>
                /\ result' # NoResult
                /\ Len(result'.errors) =
                      Len(r.errors) + (IF o = "fail" THEN 1 ELSE 0)
                /\ result'.success = (result'.errors = <<>>)]_vars

\* A cycle has just returned after one entry failed and the pull failed:
\* two errors, no success.
C24_Witness ==
    /\ result # NoResult
    /\ Len(result.errors) = 2
    /\ result.errors[2] = ErrorEntry("pull", 0)
    /\ result.errors[1].op \in Ops
    /\ ~result.success

\* The number of elements of the in-memory list that are the stored
\* record id.
Shown(l, id) ==
    Cardinality({k \in 1..Len(l) : ~l[k].temp /\ l[k].id = id})

\* C25 (as claimed): when an addExpense call completes while its owner is
\* signed in, no placeholder with its temp id remains in the list, and the
\* stored record of a successful call is in the list exactly once, also
\* when other calls are in flight.
C25_PlaceholderReplaced ==
    [][\A i \in 1..MaxAdds :
          (user # NoUser /\ AddReturns(i)) =>
              LET c == addCalls[i]
              IN /\ \A k \in 1..Len(shown') :
                       ~(shown'[k].temp /\ shown'[k].id = c.tempId
                         /\ \A j \in 1..Len(addCalls') :
                               addCalls'[j].tempId # c.tempId)
                 /\ c.error = NoErr => Shown(shown', c.data.id) = 1]_vars

\* C26: the values a cycle sends for a create or update entry are those the
\* local row holds when the entry is processed, and they are what the remote
\* row holds once the call is applied.
C26_PushSendsCurrentRow ==
    [][/\ \A r2 \in BagToSet(cyc') :
            (Sends(r2) /\ r2.pc \in {"create", "update"}) =>
                /\ expenses'[Head(r2.items).expense_id] # NoRow
                /\ r2.data = expenses'[Head(r2.items).expense_id].val
       /\ \A r \in Cycles, o \in {"ok", "lost"} :
            (/\ Answered(r)
             /\ \/ CreateResponse(r, o)
                \/ UpdateResponse(r, o)
                \/ FallbackResponse(r, o)
             /\ remote'[Head(r.items).expense_id]
                   # remote[Head(r.items).expense_id]) =>
                remote'[Head(r.items).expense_id].val = r.data]_vars

\* A record was edited after its creation and both entries are queued; the
\* cycle is sending the create with what the row holds now.
C26_Witness ==
    \E r \in Cycles :
        /\ r.pc = "create"
        /\ HasEntry(sync_queue, Head(r.items).expense_id, "update")
        /\ expenses[Head(r.items).expense_id] # NoRow
        /\ r.data = expenses[Head(r.items).expense_id].val
        /\ r.data = MaxVal

\* C27 (as claimed): when a cycle that never ran beside another one
\* completes, no record is left with synced = 1 and no queue entry while the
\* remote holds other values than those of the latest local edit.
C27_EditDuringPushTracked ==
    [][\A r \in Cycles :
          (Answered(r) /\ overlaps = 0 /\ \E o \in {"ok", "fail"} :
                                            PullResponse(r, o)) =>
              \A id \in Ids :
                  ~(/\ intent[id] # 0
                    /\ expenses'[id] # NoRow
                    /\ expenses'[id].synced = 1
                    /\ EntriesOf(sync_queue', id) = {}
                    /\ remote'[id] # NoRow
                    /\ remote'[id].val # intent[id])]_vars

\* C28 (as claimed): a record deleteExpense removed has no local row as long
\* as its delete entry is in the queue.
C28_DeletedStaysDeleted ==
    \A id \in deleted :
        HasEntry(sync_queue, id, "delete") => expenses[id] = NoRow

\* C29 (as claimed): the retry count of every queue entry is between 0 and
\* the ceiling, and no step increments the count of an entry that is at
\* the ceiling.
C29_RetryCountBounded ==
    [][\A e \in QueueEntries(sync_queue') :
          /\ e.retry_count \in 0..MAX_RETRIES
          /\ \A e0 \in QueueEntries(sync_queue) :
                (e0.id = e.id /\ e0.retry_count >= MAX_RETRIES) =>
                    e.retry_count = e0.retry_count]_vars

\* C30: a pull, the one of a cycle or the one of forcePullFromRemote,
\* leaves every local row the remote did not return as it was: not removed,
\* its fields and its synced flag unchanged.
C30_PullFrame ==
    [][\A r \in Cycles, o \in {"ok", "fail"} :
          (Answered(r) /\ PullResponse(r, o)) =>
              \A id \in Ids :
                  (o = "fail" \/ id \notin remoteGetExpenses(remote, UserId))
                      => expenses'[id] = expenses[id]]_vars

\* A pull has just returned a row, and another record that the remote does
\* not hold is still in the local store, unsynced.
C30_Witness ==
    /\ result # NoResult
    /\ result.pulled >= 1
    /\ \E id \in Ids :
          /\ expenses[id] # NoRow
          /\ expenses[id].synced = 0
          /\ remote[id] = NoRow

====
